---- MODULE Spec2Model ----
(***************************************************************************)
(* SeaBuddy backend: the bidirectional sync endpoint (POST /api/sync) over *)
(* the mood_logs, journal_entries, check_ins, resources and sync_metadata  *)
(* tables, with the status and delete endpoints; and the mobile client:    *)
(* the local tables of operations.ts and SyncService.performSync.          *)
(* Timestamps are integers (milliseconds abstracted to ticks); the row     *)
(* content of an entity is represented by its mood column.                 *)
(***************************************************************************)
EXTENDS Integers, Sequences, FiniteSets, TLC

\* ---------------------------------------------------------------- bounds
MaxTime == 2
MaxCalls == 2
MaxBatch == 1
MaxIds == 2
MaxInFlight == 2
MaxEdgeCalls == 2
MaxEdgeBatch == 2
MaxTombstoneCalls == 4
MaxRaceCalls == 2
MaxStatusCalls == 3
MaxAdminCalls == 3
MaxDeviceTime == 2
MaxSyncs == 2
MaxRunning == 2
MaxLocalWrites == 2

\* ------------------------------------------------------------- value sets
\* an optional timestamp that the JSON payload does not carry
Absent == -1
\* new Date(0): the pull cutoff when lastSyncAt is absent
Epoch == 0
\* a lastSyncAt string that is not an ISO datetime
Malformed == -2
\* SQL NULL in resources.tenant_id (global resource)
Null == "null"

Tenants == {"T1", "T2"}
Ids == 1 .. MaxIds
Moods == {"good", "bad"}
DeviceIds == {"D1"}

\* the three user-owned tables, in the order the handler pushes them
EntityOrder == <<"mood_logs", "journal_entries", "check_ins">>
Entities == {EntityOrder[k] : k \in 1 .. 3}
\* const tables = [...] of the cursor update
tables == <<"mood_logs", "journal_entries", "check_ins", "resources">>

\* {tenantId, userId, userRole} attached to the request by tenantMiddleware
Callers ==
  { [tenantId |-> "T1", userId |-> "U1", userRole |-> "crew"],
    [tenantId |-> "T1", userId |-> "U2", userRole |-> "crew"],
    [tenantId |-> "T2", userId |-> "U3", userRole |-> "crew"] }

NoRow == [exists |-> FALSE]

\* One element of changes.moodLogs / journalEntries / checkIns (z.any()):
\* the keys a payload may carry; "absent" / Absent marks a missing key.
\* (mapToServerFormat of the client sends id, content, clientCreatedAt and
\* updatedAt; the server accepts any further key)
PlainChanges ==
  { [ id |-> k, mood |-> m, clientCreatedAt |-> d[1], updatedAt |-> d[2],
      createdAt |-> Absent, tenantId |-> "absent", userId |-> "absent",
      isDeleted |-> "absent", needsAttention |-> "absent",
      reviewNotes |-> "absent" ] :
    k \in Ids, m \in Moods, d \in {<<1, Absent>>, <<2, Absent>>, <<2, 3>>} }
\* payloads that also carry identity / server columns of their own
ForgedChanges ==
  [ id : {1}, mood : {"bad"}, clientCreatedAt : {2}, updatedAt : {3},
    createdAt : {3}, tenantId : {"T2"}, userId : {"U3"},
    isDeleted : {"absent", "true"}, needsAttention : {"absent"},
    reviewNotes : {"absent"} ]
Changes == PlainChanges \cup ForgedChanges
\* the payloads drawn for each table
ChangesFor(e) ==
  IF e = "mood_logs"
  THEN { p \in Changes : p.id = 1 \/ (p.mood = "good" /\ p.clientCreatedAt = 1) }
  ELSE { p \in Changes : p.id = 1 /\ p.mood = "good" /\ p.clientCreatedAt = 1 }

\* ----------------------------------------------------------- pure helpers
\* new Date(log.updatedAt || log.clientCreatedAt)
ClientDate(log) ==
  IF log.updatedAt # Absent THEN log.updatedAt ELSE log.clientCreatedAt

\* drizzle eq(column, value): SQL equality, never true against NULL
SqlEq(col, val) == col # Null /\ val # Null /\ col = val

\* .set({...log, tenantId, userId, syncedAt: new Date(), updatedAt: new Date()})
UpdateSet(row, log, tenantId, userId, t) ==
  [ id |-> log.id,
    tenantId |-> tenantId,
    userId |-> userId,
    mood |-> IF log.mood # "absent" THEN log.mood ELSE row.mood,
    clientCreatedAt |-> IF log.clientCreatedAt # Absent THEN log.clientCreatedAt
                        ELSE row.clientCreatedAt,
    createdAt |-> IF log.createdAt # Absent THEN log.createdAt ELSE row.createdAt,
    updatedAt |-> t,
    syncedAt |-> t,
    isDeleted |-> IF log.isDeleted # "absent" THEN log.isDeleted = "true"
                  ELSE row.isDeleted ]

\* variant of InsertValues: the payload's own tenantId / userId survive
InsertValuesPayloadWins(log, tenantId, userId, t) ==
  [ id |-> log.id,
    tenantId |-> IF log.tenantId # "absent" THEN log.tenantId ELSE tenantId,
    userId |-> IF log.userId # "absent" THEN log.userId ELSE userId,
    mood |-> log.mood,
    clientCreatedAt |-> log.clientCreatedAt,
    createdAt |-> IF log.createdAt # Absent THEN log.createdAt ELSE t,
    updatedAt |-> IF log.updatedAt # Absent THEN log.updatedAt ELSE t,
    syncedAt |-> t,
    isDeleted |-> log.isDeleted = "true" ]

\* .values({...log, tenantId, userId, syncedAt: new Date()}) plus the
\* column defaults of the schema (created_at, updated_at, is_deleted)
InsertValues(log, tenantId, userId, t) ==
  [ id |-> log.id,
    tenantId |-> tenantId,
    userId |-> userId,
    mood |-> log.mood,
    clientCreatedAt |-> log.clientCreatedAt,
    createdAt |-> IF log.createdAt # Absent THEN log.createdAt ELSE t,
    updatedAt |-> IF log.updatedAt # Absent THEN log.updatedAt ELSE t,
    syncedAt |-> t,
    isDeleted |-> log.isDeleted = "true" ]

\* the check_ins columns needs_attention / review_notes as the update
\* leaves them: .set({...checkIn, ...}) copies the keys the payload carries
ReviewSet(row, log) ==
  [ needsAttention |-> IF log.needsAttention # "absent"
                       THEN log.needsAttention = "true" ELSE row.needsAttention,
    reviewNotes |-> IF log.reviewNotes # "absent" THEN log.reviewNotes
                    ELSE row.reviewNotes ]

\* the same columns of an inserted check-in: the payload's keys, else the
\* schema defaults (needs_attention false, review_notes null)
ReviewValues(log) ==
  [ needsAttention |-> log.needsAttention = "true",
    reviewNotes |-> IF log.reviewNotes # "absent" THEN log.reviewNotes ELSE Null ]

\* the row written by the update branch of table e
UpdatedRow(e, row, log, tenantId, userId, t) ==
  IF e = "check_ins"
  THEN UpdateSet(row, log, tenantId, userId, t) @@ ReviewSet(row, log)
  ELSE UpdateSet(row, log, tenantId, userId, t)

\* the row written by the insert branch of table e
InsertedRow(e, log, tenantId, userId, t) ==
  IF e = "check_ins"
  THEN InsertValues(log, tenantId, userId, t) @@ ReviewValues(log)
  ELSE InsertValues(log, tenantId, userId, t)

\* the insert rejects a payload that leaves a NOT NULL column without a
\* value: the content column (mood_logs.mood, journal_entries.content,
\* check_ins.scheduled_for) or client_created_at
ViolatesNotNull(log) == log.mood = "absent" \/ log.clientCreatedAt = Absent

\* db.query.<entity>.findFirst({ where: eq(<entity>.id, log.id) })
FindFirstById(table, id) == table[id]

\* variant of ClientIsNewer: >= in place of >
ClientIsNewerOrEqual(log, existing) == ClientDate(log) >= existing.updatedAt

\* if (clientDate > serverDate)
ClientIsNewer(log, existing) == ClientDate(log) > existing.updatedAt

\* variant of PullRows: the userId condition is missing
PullRowsTenantOnly(table, tenantId, userId, cutoff) ==
  { table[id] : id \in { k \in Ids : /\ table[k] # NoRow
                                     /\ SqlEq(table[k].tenantId, tenantId)
                                     /\ table[k].updatedAt > cutoff } }

\* variant of PullRows: rows updated exactly at the cutoff are returned too
PullRowsInclusive(table, tenantId, userId, cutoff) ==
  { table[id] : id \in { k \in Ids : /\ table[k] # NoRow
                                     /\ SqlEq(table[k].tenantId, tenantId)
                                     /\ SqlEq(table[k].userId, userId)
                                     /\ table[k].updatedAt >= cutoff } }

\* findMany({ where: and(eq(tenantId), eq(userId), gt(updatedAt, cutoff)) })
PullRows(table, tenantId, userId, cutoff) ==
  { table[id] : id \in { k \in Ids : /\ table[k] # NoRow
                                     /\ SqlEq(table[k].tenantId, tenantId)
                                     /\ SqlEq(table[k].userId, userId)
                                     /\ table[k].updatedAt > cutoff } }

\* variant of PullResources: the tenant condition is missing
PullResourcesAnyTenant(res, tenantId, cutoff) ==
  { r \in res : r.isPublished /\ r.updatedAt > cutoff }

\* resources.findMany({ where: and(or(eq(tenantId, tenantId),
\*   eq(tenantId, null)), eq(isPublished, true), gt(updatedAt, cutoff)) })
PullResources(res, tenantId, cutoff) ==
  { r \in res : /\ (SqlEq(r.tenantId, tenantId) \/ SqlEq(r.tenantId, Null))
                /\ r.isPublished
                /\ r.updatedAt > cutoff }

\* const syncCutoffDate = lastSyncAt ? new Date(lastSyncAt) : new Date(0)
SyncCutoffDate(lastSyncAt) == IF lastSyncAt # Absent THEN lastSyncAt ELSE Epoch

\* variant of FindCursor: the tableName condition is missing
FindCursorAnyTable(meta, tenantId, userId, deviceId, tableName) ==
  LET hits == { k \in 1 .. Len(meta) : /\ meta[k].tenantId = tenantId
                                       /\ meta[k].userId = userId
                                       /\ meta[k].deviceId = deviceId }
  IN IF hits = {} THEN 0 ELSE CHOOSE k \in hits : \A j \in hits : k <= j

\* syncMetadata.findFirst({ where: and(eq(tenantId), eq(userId),
\*   eq(deviceId), eq(tableName)) }): index of the first match, 0 if none
FindCursor(meta, tenantId, userId, deviceId, tableName) ==
  LET hits == { k \in 1 .. Len(meta) : /\ meta[k].tenantId = tenantId
                                       /\ meta[k].userId = userId
                                       /\ meta[k].deviceId = deviceId
                                       /\ meta[k].tableName = tableName }
  IN IF hits = {} THEN 0 ELSE CHOOSE k \in hits : \A j \in hits : k <= j

\* an error thrown by the database driver: not an AppError
StoreFailure == [isAppError |-> FALSE, statusCode |-> 0]

\* variant of errorHandler: the error is swallowed
ErrorHandlerSwallows(err) == [status |-> 200, success |-> TRUE]

\* errorHandler: {success: false, error} with the AppError's statusCode, or
\* with 500 for any other error
ErrorHandler(err) ==
  [ status |-> IF err.isAppError THEN err.statusCode ELSE 500,
    success |-> FALSE ]

\* variant of Conflicts: a discarded push is reported
ConflictsOfDropped(last) ==
  IF last.kind = "skipped" THEN <<last.log>> ELSE <<>>

\* conflicts: [] of the response, whatever the last push step did
Conflicts(last) == <<>>

\* the orders in which a findMany without orderBy may return the rows S
Orderings(S) ==
  { s \in [1 .. Cardinality(S) -> S] :
      \A i, j \in 1 .. Cardinality(S) : i # j => s[i] # s[j] }

\* ------------------------------------------------------------------ state
VARIABLES
  now,          \* the server clock as of its latest read by new Date()
  rows,         \* rows[entity][id]: mood_logs, journal_entries, check_ins
  resources,    \* the resources table
  syncMetadata, \* the sync_metadata table, rows in insertion order
  calls,        \* the sync calls in flight, one record per handler run
  started,      \* number of sync calls received so far
  winner,       \* per row: the payload and caller of its last accepted push,
                \* and the owner's push that tombstoned it, if any
  device        \* the mobile client: local SQLite tables, SyncService state

vars == <<now, rows, resources, syncMetadata, calls, started, winner, device>>

CallSlots == 1 .. MaxInFlight

NoWrite == [kind |-> "none"]

EmptyChanges == [e \in Entities |-> <<>>]

EmptyServerChanges ==
  [moodLogs |-> {}, journalEntries |-> {}, checkIns |-> {}, resources |-> {}]

IdleCall ==
  [ pc |-> "idle", tenantId |-> "T1", userId |-> "U1", userRole |-> "crew",
    deviceId |-> "D1", lastSyncAt |-> Absent, changesShape |-> "object",
    changes |-> EmptyChanges, cause |-> "none",
    op |-> "sync", target |-> 0, rid |-> "none", data |-> {},
    ent |-> 1, i |-> 1, existing |-> NoRow,
    serverChanges |-> EmptyServerChanges, tbl |-> 1, cexisting |-> 0,
    cnow |-> 0, success |-> FALSE, status |-> 0, conflicts |-> <<>>,
    last |-> NoWrite, done |-> <<>>, listed |-> [e \in Entities |-> <<>>],
    pushed |-> 0, preRows |-> [e \in Entities |-> [k \in Ids |-> NoRow]],
    preMeta |-> <<>> ]

\* seed.ts: global resources (tenantId null) and one tenant resource
SeedResources ==
  { [id |-> "R1", tenantId |-> Null, isPublished |-> TRUE, updatedAt |-> 1],
    [id |-> "R2", tenantId |-> "T1", isPublished |-> TRUE, updatedAt |-> 1] }

\* ------------------------------------------------------------- the device
\* a localId not yet in a local table
NoLocal == [exists |-> FALSE]
\* serverId TEXT of a local record that was never linked: NULL
NullId == 0

\* the performSync invocations that may be open at the same time
RunSlots == 1 .. MaxRunning

\* a performSync invocation: where it stands, the handler run that serves
\* its api.sync call, the pending records it collected and what it returned
NoRun ==
  [ pc |-> "idle", slot |-> 0, pending |-> [e \in Entities |-> <<>>],
    collected |-> [e \in Entities |-> [k \in Ids |-> NoLocal]],
    success |-> FALSE, message |-> "none" ]

\* a fresh install: initDatabase has created empty tables, no sync_metadata
\* row, isSyncing = false
InitDevice ==
  [ isConnected |-> TRUE, isSyncing |-> FALSE, clock |-> 1,
    tbl |-> [e \in Entities |-> [k \in Ids |-> NoLocal]],
    lastSyncedAt |-> Absent,
    runs |-> [p \in RunSlots |-> NoRun],
    syncs |-> 0, writes |-> 0 ]

Init ==
  /\ device = InitDevice
  /\ now = 1
  /\ rows = [e \in Entities |-> [k \in Ids |-> NoRow]]
  /\ resources = SeedResources
  /\ syncMetadata = <<>>
  /\ calls = [c \in CallSlots |-> IdleCall]
  /\ started = 0
  /\ winner = [e \in Entities |-> [k \in Ids |-> NoWrite]]

\* ---------------------------------------------------------------- requests
\* req.body of POST /api/sync after validate(syncRequestSchema)
Items == UNION { {e} \X ChangesFor(e) : e \in Entities }
BatchSeqs == UNION { [1 .. n -> Items] : n \in 0 .. MaxBatch }
ChangesOf(s) ==
  [ e \in Entities |->
      LET f == SelectSeq(s, LAMBDA x : x[1] = e)
      IN [k \in 1 .. Len(f) |-> f[k][2]] ]

Requests ==
  [ caller : Callers, deviceId : DeviceIds, lastSyncAt : {Absent, 1},
    changesShape : {"object"},
    changes : { ChangesOf(s) : s \in BatchSeqs } ]

\* variant of ValidEnvelope: the deviceId is not looked at
ValidEnvelopeAnyDevice(req) ==
  /\ req.lastSyncAt # Malformed
  /\ req.changesShape = "object"

\* validate(syncRequestSchema): deviceId is z.string().uuid() and changes is
\* a z.object whose members, when present, are arrays
ValidEnvelope(req) ==
  /\ req.deviceId \in DeviceIds
  /\ req.lastSyncAt # Malformed
  /\ req.changesShape = "object"

\* the first entity index >= ent whose change list is not empty, 0 if none
\* (if (changes.x && changes.x.length > 0) ...)
FirstFrom(ch, ent) ==
  LET cand == { k \in ent .. 3 : Len(ch[EntityOrder[k]]) > 0 }
  IN IF cand = {} THEN 0 ELSE CHOOSE k \in cand : \A j \in cand : k <= j

\* the handler's position after it is done with change i of entity ent
AfterChange(call) ==
  IF call.i < Len(call.changes[EntityOrder[call.ent]])
  THEN [call EXCEPT !.pc = "find", !.i = call.i + 1, !.existing = NoRow]
  ELSE LET n == FirstFrom(call.changes, call.ent + 1)
       IN IF n = 0
          THEN [call EXCEPT !.pc = "pull", !.ent = 1, !.i = 1,
                            !.existing = NoRow]
          ELSE [call EXCEPT !.pc = "find", !.ent = n, !.i = 1,
                            !.existing = NoRow]

\* variant of CurrentLog: the list is walked from its end
CurrentLogFromEnd(call) ==
  call.changes[EntityOrder[call.ent]]
              [Len(call.changes[EntityOrder[call.ent]]) - call.i + 1]

\* for (const log of changes.<x>): the change the loop is at
CurrentLog(call) == call.changes[EntityOrder[call.ent]][call.i]

\* ----------------------------------------------------------------- actions
\* the limit of a run whose calls are not counted: setInterval keeps firing
Unlimited == -1

\* slot c can take a call: it is the lowest free slot, fewer than limit calls
\* were made, and no other call is running unless calls may overlap
CanStart(c, limit, overlap) ==
  /\ calls[c].pc = "idle"
  /\ (limit = Unlimited \/ started < limit)
  /\ \A d \in CallSlots : d < c => calls[d].pc # "idle"
  /\ overlap \/ \A d \in CallSlots : calls[d].pc = "idle"

\* router.post('/'): validate(syncRequestSchema) answers 400 to a malformed
\* envelope, otherwise the handler starts.  limit bounds the number of
\* calls; overlap tells whether a call may arrive while another is running;
\* a call takes the lowest free handler slot.
Accept(c, req, limit, overlap) ==
  /\ CanStart(c, limit, overlap)
  /\ started' = IF limit = Unlimited THEN started ELSE started + 1
  /\ LET n == FirstFrom(req.changes, 1)
         call == [ IdleCall EXCEPT
                     !.tenantId = req.caller.tenantId,
                     !.userId = req.caller.userId,
                     !.userRole = req.caller.userRole,
                     !.deviceId = req.deviceId,
                     !.lastSyncAt = req.lastSyncAt,
                     !.changesShape = req.changesShape,
                     !.changes = req.changes,
                     !.preRows = rows,
                     !.preMeta = syncMetadata ]
     IN calls' = [calls EXCEPT ![c] =
                    IF ~ValidEnvelope(req)
                    THEN [call EXCEPT !.pc = "responded", !.success = FALSE,
                                      !.status = 400, !.cause = "validation"]
                    ELSE IF n = 0 THEN [call EXCEPT !.pc = "pull"]
                    ELSE [call EXCEPT !.pc = "find", !.ent = n]]
  /\ UNCHANGED <<now, rows, resources, syncMetadata, winner>>

\* a sync call sent by a client other than the modelled device
Start(c, req, limit, overlap) ==
  Accept(c, req, limit, overlap) /\ UNCHANGED device

\* a sync call received while no other call is running
Receive(c, req) == Start(c, req, MaxCalls, FALSE)

\* const existing = await db.query.<entity>.findFirst(...)
Find(c) ==
  /\ calls[c].pc = "find"
  /\ LET call == calls[c]
         log == CurrentLog(call)
     IN calls' = [calls EXCEPT ![c] =
                    [call EXCEPT !.pc = "write",
                                 !.existing =
                                   FindFirstById(rows[EntityOrder[call.ent]], log.id)]]
  /\ UNCHANGED <<device, now, rows, resources, syncMetadata, started, winner>>

\* the update / skip / insert that follows the lookup of one change
Write(c) ==
  /\ calls[c].pc = "write"
  /\ \E t \in now .. MaxTime : now' = t
  /\ LET call == calls[c]
         t == now'
         e == EntityOrder[call.ent]
         log == CurrentLog(call)
         cur == rows[e][log.id]
         ghost(kind) == [ kind |-> kind, ent |-> e, id |-> log.id,
                          before |-> cur, log |-> log,
                          prev |-> winner[e][log.id] ]
         prev == winner[e][log.id]
         tombstoned == prev.kind = "push" /\ prev.deletedBy # "nobody"
         deletes == /\ log.isDeleted = "true" /\ cur # NoRow
                    /\ cur.userId = call.userId /\ ~cur.isDeleted
         won(isUpdate) ==
                [ kind |-> "push", log |-> log, userId |-> call.userId,
                  tenantId |-> call.tenantId,
                  deletedBy |-> IF tombstoned THEN prev.deletedBy
                                ELSE IF isUpdate /\ deletes
                                THEN call.userId
                                ELSE "nobody",
                  deletedAt |-> IF tombstoned THEN prev.deletedAt
                                ELSE IF isUpdate /\ deletes
                                THEN t
                                ELSE 0 ]
     IN IF call.existing # NoRow
        THEN IF ClientIsNewer(log, call.existing)
             THEN \* db.update(...).set(...).where(eq(id, log.id))
                  /\ rows' = [rows EXCEPT ![e][log.id] =
                               IF cur = NoRow THEN NoRow
                               ELSE UpdatedRow(e, cur, log, call.tenantId,
                                               call.userId, t)]
                  /\ winner' = [winner EXCEPT ![e][log.id] = won(TRUE)]
                  /\ calls' = [calls EXCEPT ![c] =
                       [AfterChange(call) EXCEPT !.last = ghost("updated"),
                                                 !.done = Append(call.done, <<e, log>>),
                                                 !.pushed = call.pushed + 1]]
             ELSE /\ calls' = [calls EXCEPT ![c] =
                       [AfterChange(call) EXCEPT !.last = ghost("skipped"),
                                                 !.done = Append(call.done, <<e, log>>)]]
                  /\ UNCHANGED <<rows, winner>>
        ELSE IF cur = NoRow /\ ~ViolatesNotNull(log)
             THEN \* db.insert(...).values(...)
                  /\ rows' = [rows EXCEPT ![e][log.id] =
                               InsertedRow(e, log, call.tenantId, call.userId, t)]
                  /\ winner' = [winner EXCEPT ![e][log.id] = won(FALSE)]
                  /\ calls' = [calls EXCEPT ![c] =
                       [AfterChange(call) EXCEPT !.last = ghost("inserted"),
                                                 !.done = Append(call.done, <<e, log>>),
                                                 !.pushed = call.pushed + 1]]
             ELSE \* primary key or NOT NULL violation: the insert
                  \* rejects, the handler run ends with 500
                  /\ calls' = [calls EXCEPT ![c] =
                       [call EXCEPT !.pc = "responded",
                                    !.success = ErrorHandler(StoreFailure).success,
                                    !.status = ErrorHandler(StoreFailure).status,
                                    !.cause = "constraint",
                                    !.last = ghost("rejected")]]
                  /\ UNCHANGED <<rows, winner>>
  /\ UNCHANGED <<device, resources, syncMetadata, started>>

\* serverChanges.<x> = await db.query.<x>.findMany(...), one table per step,
\* the rows of a list in whatever order the database returns them;
\* after the resources read: const now = new Date()
Pull(c) ==
  /\ calls[c].pc = "pull"
  /\ IF calls[c].ent = 4 THEN \E t \in now .. MaxTime : now' = t
     ELSE now' = now
  /\ LET call == calls[c]
         cutoff == SyncCutoffDate(call.lastSyncAt)
         got(e) == PullRows(rows[e], call.tenantId, call.userId, cutoff)
         e == EntityOrder[IF call.ent < 4 THEN call.ent ELSE 1]
     IN \E order \in IF call.ent < 4 THEN Orderings(got(e)) ELSE {<<>>} :
        calls' = [calls EXCEPT ![c] =
          CASE call.ent = 1 ->
                 [call EXCEPT !.serverChanges.moodLogs = got("mood_logs"),
                              !.listed["mood_logs"] = order,
                              !.ent = 2]
            [] call.ent = 2 ->
                 [call EXCEPT !.serverChanges.journalEntries =
                                got("journal_entries"),
                              !.listed["journal_entries"] = order,
                              !.ent = 3]
            [] call.ent = 3 ->
                 [call EXCEPT !.serverChanges.checkIns = got("check_ins"),
                              !.listed["check_ins"] = order,
                              !.ent = 4]
            [] OTHER ->
                 [call EXCEPT !.serverChanges.resources =
                                PullResources(resources, call.tenantId, cutoff),
                              !.pc = "cfind", !.tbl = 1, !.cnow = now']]
  /\ UNCHANGED <<device, rows, resources, syncMetadata, started, winner>>

\* const existing = await db.query.syncMetadata.findFirst(...)
CursorFind(c) ==
  /\ calls[c].pc = "cfind"
  /\ LET call == calls[c]
     IN calls' = [calls EXCEPT ![c] =
          [call EXCEPT !.pc = "cwrite",
                       !.cexisting = FindCursor(syncMetadata, call.tenantId,
                                       call.userId, call.deviceId,
                                       tables[call.tbl])]]
  /\ UNCHANGED <<device, now, rows, resources, syncMetadata, started, winner>>

\* update or insert of one sync_metadata row; after the last table the
\* handler builds the response and res.json(response)
CursorWrite(c) ==
  /\ calls[c].pc = "cwrite"
  /\ LET call == calls[c]
     IN /\ syncMetadata' =
             IF call.cexisting # 0
             THEN [syncMetadata EXCEPT ![call.cexisting].lastSyncedAt = call.cnow]
             ELSE Append(syncMetadata,
                    [ tenantId |-> call.tenantId, userId |-> call.userId,
                      deviceId |-> call.deviceId, tableName |-> tables[call.tbl],
                      lastSyncedAt |-> call.cnow ])
        /\ calls' = [calls EXCEPT ![c] =
             IF call.tbl < Len(tables)
             THEN [call EXCEPT !.pc = "cfind", !.tbl = call.tbl + 1,
                               !.cexisting = 0]
             ELSE [call EXCEPT !.pc = "responded", !.success = TRUE,
                               !.status = 200,
                               !.conflicts = Conflicts(call.last)]]
  /\ UNCHANGED <<device, now, rows, resources, started, winner>>

\* an awaited store operation rejects (connection lost, constraint):
\* asyncHandler passes the error to errorHandler, which answers 500
StoreError(c) ==
  /\ calls[c].pc \in {"find", "write", "pull", "cfind", "cwrite",
                      "sread", "dwrite", "rdelete"}
  /\ calls' = [calls EXCEPT ![c] =
       [calls[c] EXCEPT !.pc = "responded",
                        !.success = ErrorHandler(StoreFailure).success,
                        !.status = ErrorHandler(StoreFailure).status,
                        !.cause = "store"]]
  /\ UNCHANGED <<device, now, rows, resources, syncMetadata, started, winner>>

\* the response has been sent; the handler run is over
Close(c) ==
  /\ calls[c].pc = "responded"
  /\ calls' = [calls EXCEPT ![c] = IdleCall]
  /\ UNCHANGED <<device, now, rows, resources, syncMetadata, started, winner>>

Next ==
  \/ \E c \in CallSlots : CanStart(c, MaxCalls, FALSE) /\
                           \E req \in Requests : Receive(c, req)
  \/ \E c \in CallSlots : Find(c)
  \/ \E c \in CallSlots : Write(c)
  \/ \E c \in CallSlots : Pull(c)
  \/ \E c \in CallSlots : CursorFind(c)
  \/ \E c \in CallSlots : CursorWrite(c)
  \/ \E c \in CallSlots : StoreError(c)
  \/ \E c \in CallSlots : Close(c)

Spec == Init /\ [][Next]_vars

\* the steps of a handler run after the request was received
Run(c) ==
  \/ Find(c)
  \/ Write(c)
  \/ Pull(c)
  \/ CursorFind(c)
  \/ CursorWrite(c)
  \/ StoreError(c)
  \/ Close(c)

\* ------------------------------------------- malformed and batched requests
\* a payload with id, content and clientCreatedAt only
BasePayload ==
  [ id |-> 1, mood |-> "good", clientCreatedAt |-> 1, updatedAt |-> Absent,
    createdAt |-> Absent, tenantId |-> "absent", userId |-> "absent",
    isDeleted |-> "absent", needsAttention |-> "absent",
    reviewNotes |-> "absent" ]

\* mood-log payloads: two well-formed ones, one without clientCreatedAt, one
\* whose mood is none of the application's mood values
EdgeMoodLogs ==
  { BasePayload,
    [BasePayload EXCEPT !.id = 2],
    [BasePayload EXCEPT !.id = 2, !.clientCreatedAt = Absent],
    [BasePayload EXCEPT !.mood = "weird"] }

\* check-in payloads: a plain one and a later one that carries review fields
EdgeCheckIns ==
  { BasePayload,
    [BasePayload EXCEPT !.mood = "bad", !.clientCreatedAt = 2, !.updatedAt = 3,
                        !.needsAttention = "true", !.reviewNotes = "note"] }

EdgeItems == ({"mood_logs"} \X EdgeMoodLogs) \cup ({"check_ins"} \X EdgeCheckIns)
EdgeBatches == UNION { [1 .. n -> EdgeItems] : n \in 0 .. MaxEdgeBatch }

\* request bodies of one crew caller: well-formed envelopes with batches of
\* changes, and envelopes that syncRequestSchema does not accept
EdgeRequests ==
  [ caller : {[tenantId |-> "T1", userId |-> "U1", userRole |-> "crew"]},
    deviceId : DeviceIds, lastSyncAt : {Absent}, changesShape : {"object"},
    changes : { ChangesOf(s) : s \in EdgeBatches } ]
  \cup
  [ caller : {[tenantId |-> "T1", userId |-> "U1", userRole |-> "crew"]},
    deviceId : {"not-a-uuid", "missing"}, lastSyncAt : {Absent},
    changesShape : {"object"},
    changes : { ChangesOf(<<<<"mood_logs", BasePayload>>>>) } ]
  \cup
  [ caller : {[tenantId |-> "T1", userId |-> "U1", userRole |-> "crew"]},
    deviceId : DeviceIds, lastSyncAt : {Absent, Malformed},
    changesShape : {"missing", "array", "member-not-array"},
    changes : {EmptyChanges} ]

NextEdge ==
  \/ \E c \in CallSlots : CanStart(c, MaxEdgeCalls, FALSE) /\
                           \E req \in EdgeRequests :
                             Start(c, req, MaxEdgeCalls, FALSE)
  \/ \E c \in CallSlots : Run(c)

SpecEdge == Init /\ [][NextEdge]_vars

\* ------------------------------------------------- create, delete, overwrite
\* payloads on one mood log: its creation, a later deletion, a later edit
TombstonePayloads ==
  { BasePayload,
    [BasePayload EXCEPT !.clientCreatedAt = 2, !.updatedAt = 3,
                        !.isDeleted = "true"],
    [BasePayload EXCEPT !.mood = "bad", !.clientCreatedAt = 2, !.updatedAt = 3] }

\* two users of one tenant, each syncing nothing or one of the payloads
TombstoneRequests ==
  [ caller : { k \in Callers : k.tenantId = "T1" },
    deviceId : DeviceIds, lastSyncAt : {Absent}, changesShape : {"object"},
    changes : {EmptyChanges} \cup
              { ChangesOf(<<<<"mood_logs", p>>>>) : p \in TombstonePayloads } ]

NextTombstone ==
  \/ \E c \in CallSlots : CanStart(c, MaxTombstoneCalls, FALSE) /\
                           \E req \in TombstoneRequests :
                             Start(c, req, MaxTombstoneCalls, FALSE)
  \/ \E c \in CallSlots : Run(c)

SpecTombstone == Init /\ [][NextTombstone]_vars

\* ------------------------------------------------------ overlapping calls
\* one user's device syncing while its previous call is still running
RaceRequests ==
  [ caller : {[tenantId |-> "T1", userId |-> "U1", userRole |-> "crew"]},
    deviceId : DeviceIds, lastSyncAt : {Absent}, changesShape : {"object"},
    changes : {EmptyChanges, ChangesOf(<<<<"mood_logs", BasePayload>>>>)} ]

NextRace ==
  \/ \E c \in CallSlots : CanStart(c, MaxRaceCalls, TRUE) /\
                           \E req \in RaceRequests :
                             Start(c, req, MaxRaceCalls, TRUE)
  \/ \E c \in CallSlots : Run(c)

SpecRace == Init /\ [][NextRace]_vars

\* ------------------------------------------------- GET /api/sync/status
\* req.query.deviceId of a status request: a device with cursors, a device
\* without, an empty string, or no deviceId at all
StatusRequests ==
  [ caller : Callers, deviceId : {"D1", "D2", "", "missing"} ]

\* variant of StatusRows: the userId condition is missing
StatusRowsAnyUser(meta, tenantId, userId, deviceId) ==
  { meta[k] : k \in { j \in 1 .. Len(meta) : /\ meta[j].tenantId = tenantId
                                              /\ meta[j].deviceId = deviceId } }

\* syncMetadata.findMany({ where: and(eq(tenantId), eq(userId), eq(deviceId)) })
StatusRows(meta, tenantId, userId, deviceId) ==
  { meta[k] : k \in { j \in 1 .. Len(meta) : /\ meta[j].tenantId = tenantId
                                              /\ meta[j].userId = userId
                                              /\ meta[j].deviceId = deviceId } }

\* router.get('/status'): if (!deviceId) answers 400, else the read follows
StatusReceive(c, req, limit) ==
  /\ CanStart(c, limit, FALSE)
  /\ started' = started + 1
  /\ LET call == [ IdleCall EXCEPT
                     !.op = "status",
                     !.tenantId = req.caller.tenantId,
                     !.userId = req.caller.userId,
                     !.userRole = req.caller.userRole,
                     !.deviceId = req.deviceId,
                     !.preRows = rows,
                     !.preMeta = syncMetadata ]
     IN calls' = [calls EXCEPT ![c] =
          IF req.deviceId \in {"", "missing"}
          THEN [call EXCEPT !.pc = "responded", !.success = FALSE,
                            !.status = 400, !.cause = "validation"]
          ELSE [call EXCEPT !.pc = "sread"]]
  /\ UNCHANGED <<device, now, rows, resources, syncMetadata, winner>>

\* const metadata = await db.query.syncMetadata.findMany(...); res.json
StatusRead(c) ==
  /\ calls[c].pc = "sread"
  /\ calls' = [calls EXCEPT ![c] =
       [calls[c] EXCEPT !.pc = "responded", !.success = TRUE, !.status = 200,
                        !.data = StatusRows(syncMetadata, calls[c].tenantId,
                                   calls[c].userId, calls[c].deviceId)]]
  /\ UNCHANGED <<device, now, rows, resources, syncMetadata, started, winner>>

\* sync calls of the device of each user, pushing nothing or one mood log
StatusSyncRequests ==
  [ caller : Callers, deviceId : DeviceIds, lastSyncAt : {Absent},
    changesShape : {"object"},
    changes : {EmptyChanges, ChangesOf(<<<<"mood_logs", BasePayload>>>>)} ]

NextStatus ==
  \/ \E c \in CallSlots : CanStart(c, MaxStatusCalls, FALSE) /\
                           \E req \in StatusSyncRequests :
                             Start(c, req, MaxStatusCalls, FALSE)
  \/ \E c \in CallSlots : CanStart(c, MaxStatusCalls, FALSE) /\
                           \E req \in StatusRequests :
                             StatusReceive(c, req, MaxStatusCalls)
  \/ \E c \in CallSlots : StatusRead(c)
  \/ \E c \in CallSlots : Run(c)

SpecStatus == Init /\ [][NextStatus]_vars

\* ------------------------------------------------------- delete endpoints
\* a crew member and an admin of one tenant
AdminCallers ==
  { [tenantId |-> "T1", userId |-> "U1", userRole |-> "crew"],
    [tenantId |-> "T1", userId |-> "A1", userRole |-> "admin"] }

\* DELETE /api/moods/:id and DELETE /api/journal/:id
SoftDeleteRequests ==
  [ caller : AdminCallers, entity : {"mood_logs", "journal_entries"}, id : {1} ]

\* DELETE /api/resources/:id
ResourceDeleteRequests ==
  [ caller : AdminCallers, rid : { r.id : r \in SeedResources } ]

\* sync calls pushing nothing or one new row of one table
AdminSyncRequests ==
  [ caller : AdminCallers, deviceId : DeviceIds, lastSyncAt : {Absent},
    changesShape : {"object"},
    changes : {EmptyChanges} \cup
              { ChangesOf(<<<<e, BasePayload>>>>) : e \in Entities } ]

\* router.delete('/:id') of moods and journal: the handler starts
SoftDeleteReceive(c, req, limit) ==
  /\ CanStart(c, limit, FALSE)
  /\ started' = started + 1
  /\ calls' = [calls EXCEPT ![c] =
       [ IdleCall EXCEPT
           !.op = "delete", !.pc = "dwrite",
           !.tenantId = req.caller.tenantId,
           !.userId = req.caller.userId,
           !.userRole = req.caller.userRole,
           !.ent = IF req.entity = "mood_logs" THEN 1 ELSE 2,
           !.target = req.id,
           !.preRows = rows,
           !.preMeta = syncMetadata ]]
  /\ UNCHANGED <<device, now, rows, resources, syncMetadata, winner>>

\* db.update(<entity>).set({ isDeleted: true, updatedAt: new Date() })
\*   .where(and(eq(id), eq(tenantId), eq(userId))); res.json
SoftDelete(c) ==
  /\ calls[c].pc = "dwrite"
  /\ \E t \in now .. MaxTime : now' = t
  /\ LET call == calls[c]
         e == EntityOrder[call.ent]
         cur == rows[e][call.target]
     IN rows' = IF /\ cur # NoRow
                   /\ SqlEq(cur.tenantId, call.tenantId)
                   /\ SqlEq(cur.userId, call.userId)
                THEN [rows EXCEPT ![e][call.target] =
                        [cur EXCEPT !.isDeleted = TRUE, !.updatedAt = now']]
                ELSE rows
  /\ calls' = [calls EXCEPT ![c] =
       [calls[c] EXCEPT !.pc = "responded", !.success = TRUE, !.status = 200]]
  /\ UNCHANGED <<device, resources, syncMetadata, started, winner>>

\* router.delete('/:id') of resources: requireRole('admin') throws
\* AppError(403) for any other role, else the handler starts
ResourceDeleteReceive(c, req, limit) ==
  /\ CanStart(c, limit, FALSE)
  /\ started' = started + 1
  /\ LET call == [ IdleCall EXCEPT
                     !.op = "deleteResource",
                     !.tenantId = req.caller.tenantId,
                     !.userId = req.caller.userId,
                     !.userRole = req.caller.userRole,
                     !.rid = req.rid,
                     !.preRows = rows,
                     !.preMeta = syncMetadata ]
         denied == ErrorHandler([isAppError |-> TRUE, statusCode |-> 403])
     IN calls' = [calls EXCEPT ![c] =
          IF req.caller.userRole # "admin"
          THEN [call EXCEPT !.pc = "responded", !.success = denied.success,
                            !.status = denied.status, !.cause = "forbidden"]
          ELSE [call EXCEPT !.pc = "rdelete"]]
  /\ UNCHANGED <<device, now, rows, resources, syncMetadata, winner>>

\* db.delete(resources).where(and(eq(id), eq(tenantId))); res.json
ResourceDelete(c) ==
  /\ calls[c].pc = "rdelete"
  /\ resources' = { r \in resources :
                      ~(r.id = calls[c].rid
                          /\ SqlEq(r.tenantId, calls[c].tenantId)) }
  /\ calls' = [calls EXCEPT ![c] =
       [calls[c] EXCEPT !.pc = "responded", !.success = TRUE, !.status = 200]]
  /\ UNCHANGED <<device, now, rows, syncMetadata, started, winner>>

NextAdmin ==
  \/ \E c \in CallSlots : CanStart(c, MaxAdminCalls, FALSE) /\
                           \E req \in AdminSyncRequests :
                             Start(c, req, MaxAdminCalls, FALSE)
  \/ \E c \in CallSlots : CanStart(c, MaxAdminCalls, FALSE) /\
                           \E req \in SoftDeleteRequests :
                             SoftDeleteReceive(c, req, MaxAdminCalls)
  \/ \E c \in CallSlots : CanStart(c, MaxAdminCalls, FALSE) /\
                           \E req \in ResourceDeleteRequests :
                             ResourceDeleteReceive(c, req, MaxAdminCalls)
  \/ \E c \in CallSlots : SoftDelete(c)
  \/ \E c \in CallSlots : ResourceDelete(c)
  \/ \E c \in CallSlots : Run(c)

SpecAdmin == Init /\ [][NextAdmin]_vars

\* ------------------------------------------------- the client (frontend)
\* tenantMiddleware: the demo user every request of the device runs as
DeviceCaller == [tenantId |-> "T1", userId |-> "U1", userRole |-> "crew"]

\* new Date() on the device: the value read is the latest one or a later one
DeviceTimes == device.clock .. MaxDeviceTime

\* generateId(): a localId that no record of the table has
FreeLocalId(tab) ==
  IF \A k \in Ids : tab[k] # NoLocal THEN 0
  ELSE CHOOSE k \in Ids : tab[k] = NoLocal /\ \A j \in Ids : j < k => tab[j] # NoLocal

\* INSERT INTO <t> (localId, ..., syncStatus, createdAt, updatedAt)
\*   VALUES (?, ..., 'PENDING', ?, ?): serverId NULL, isDeleted 0 by default
CreatedRecord(localId, mood, t) ==
  [ exists |-> TRUE, localId |-> localId, serverId |-> NullId, mood |-> mood,
    syncStatus |-> "PENDING", createdAt |-> t, updatedAt |-> t, isDeleted |-> 0 ]

\* variant of DeletedRecord: the syncStatus is left as it was
DeletedRecordKeepsStatus(rec, t) ==
  [rec EXCEPT !.isDeleted = 1, !.updatedAt = t]

\* UPDATE <t> SET isDeleted = 1, updatedAt = ?, syncStatus = 'PENDING'
DeletedRecord(rec, t) ==
  [rec EXCEPT !.isDeleted = 1, !.updatedAt = t, !.syncStatus = "PENDING"]

\* UPDATE <t> SET <content> = ?, updatedAt = ?, syncStatus = 'PENDING'
EditedRecord(rec, mood, t) ==
  [rec EXCEPT !.mood = mood, !.updatedAt = t, !.syncStatus = "PENDING"]

\* SELECT * FROM <t> WHERE syncStatus = 'PENDING' AND isDeleted = 0,
\* in localId (primary key) order
GetPending(tab) ==
  LET S == { k \in Ids : /\ tab[k] # NoLocal
                         /\ tab[k].syncStatus = "PENDING"
                         /\ tab[k].isDeleted = 0 }
      o == CHOOSE q \in Orderings(S) :
             \A i, j \in 1 .. Cardinality(S) : i < j => q[i] < q[j]
  IN [i \in 1 .. Cardinality(S) |-> tab[o[i]]]

\* mapToServerFormat: id is serverId || localId; no isDeleted key
MapToServerFormat(record) ==
  [ id |-> IF record.serverId # NullId THEN record.serverId ELSE record.localId,
    mood |-> record.mood,
    clientCreatedAt |-> record.createdAt,
    updatedAt |-> record.updatedAt,
    createdAt |-> Absent, tenantId |-> "absent", userId |-> "absent",
    isDeleted |-> "absent", needsAttention |-> "absent",
    reviewNotes |-> "absent" ]

\* SELECT lastSyncedAt FROM sync_metadata ORDER BY lastSyncedAt DESC LIMIT 1
\* (the table holds the 'global' row only); undefined when there is none
GetLastSyncTime(dev) == dev.lastSyncedAt

\* serverRecords.find(sr => sr.id === localRecord.serverId ||
\*   sr.clientCreatedAt === localRecord.createdAt): index of the first
\* match, 0 if none (a NULL serverId equals no id)
FindServerRecord(serverRecords, localRecord) ==
  LET hits == { i \in 1 .. Len(serverRecords) :
                  \/ serverRecords[i].id = localRecord.serverId
                  \/ serverRecords[i].clientCreatedAt = localRecord.createdAt }
  IN IF hits = {} THEN 0 ELSE CHOOSE i \in hits : \A j \in hits : i <= j

\* updateSyncedRecords: UPDATE <t> SET serverId = ?, syncStatus = 'SYNCED'
\* WHERE localId = ? for every collected record that has a match
UpdateSyncedRecords(tab, localRecords, serverRecords) ==
  [ k \in Ids |->
      LET js == { j \in 1 .. Len(localRecords) :
                    /\ localRecords[j].localId = k
                    /\ FindServerRecord(serverRecords, localRecords[j]) # 0 }
      IN IF js = {} \/ tab[k] = NoLocal THEN tab[k]
         ELSE LET j == CHOOSE x \in js : TRUE
                  sr == serverRecords[FindServerRecord(serverRecords,
                                                       localRecords[j])]
              IN [tab[k] EXCEPT !.serverId = sr.id, !.syncStatus = "SYNCED"] ]

\* upsertMoodLog / upsertJournalEntry / upsertCheckIn: UPDATE ... WHERE
\* serverId = ? when a record has that serverId, otherwise INSERT with
\* localId = serverId = log.id, which the PRIMARY KEY on localId rejects
\* when a record already has that localId
Upsert(tab, log) ==
  IF \E k \in Ids : tab[k] # NoLocal /\ tab[k].serverId = log.id
  THEN [ ok |-> TRUE,
         tab |-> [ k \in Ids |->
                     IF tab[k] # NoLocal /\ tab[k].serverId = log.id
                     THEN [tab[k] EXCEPT !.mood = log.mood,
                                         !.updatedAt = log.updatedAt,
                                         !.syncStatus = "SYNCED"]
                     ELSE tab[k] ] ]
  ELSE IF tab[log.id] # NoLocal
  THEN [ok |-> FALSE, tab |-> tab]
  ELSE [ ok |-> TRUE,
         tab |-> [tab EXCEPT ![log.id] =
                    [ exists |-> TRUE, localId |-> log.id, serverId |-> log.id,
                      mood |-> log.mood, syncStatus |-> "SYNCED",
                      createdAt |-> log.createdAt, updatedAt |-> log.updatedAt,
                      isDeleted |-> 0 ]] ]

\* serverChanges.<x>.forEach(upsert) from element i on; the first statement
\* that throws ends the loop, the statements before it stay applied
RECURSIVE UpsertAll(_, _, _)
UpsertAll(tab, logs, i) ==
  IF i > Len(logs) THEN [ok |-> TRUE, tab |-> tab]
  ELSE LET u == Upsert(tab, logs[i])
       IN IF u.ok THEN UpsertAll(u.tab, logs, i + 1) ELSE u

\* saveServerChanges: mood logs, journal entries, then check-ins (resources
\* are INSERT OR REPLACE into a table of their own and are left out)
RECURSIVE SaveServerChanges(_, _, _)
SaveServerChanges(tbl, listed, n) ==
  IF n > Len(EntityOrder) THEN [ok |-> TRUE, tbl |-> tbl]
  ELSE LET e == EntityOrder[n]
           u == UpsertAll(tbl[e], listed[e], 1)
           t == [tbl EXCEPT ![e] = u.tab]
       IN IF u.ok THEN SaveServerChanges(t, listed, n + 1)
          ELSE [ok |-> FALSE, tbl |-> t]

\* steps 4 and 5 of performSync on a response with success: true
ApplyResponse(tbl, pending, listed) ==
  SaveServerChanges(
    [e \in Entities |-> UpdateSyncedRecords(tbl[e], pending[e], listed[e])],
    listed, 1)

\* variant of EnterSync: the flag is raised before the network check
EnterSyncBeforeNetCheck(dev, connected) == [dev EXCEPT !.isSyncing = TRUE]

\* if (!netState.isConnected) return ...; this.isSyncing = true
EnterSync(dev, connected) ==
  IF connected THEN [dev EXCEPT !.isSyncing = TRUE] ELSE dev

\* a db.runSync of operations.ts on record k of table e, at device time t
LocalWrite(e, k, rec, t) ==
  /\ device.writes < MaxLocalWrites
  /\ device' = [device EXCEPT !.tbl[e][k] = rec, !.clock = t,
                              !.writes = @ + 1]
  /\ UNCHANGED <<now, rows, resources, syncMetadata, calls, started, winner>>

CreateMoodLog ==
  LET k == FreeLocalId(device.tbl["mood_logs"])
  IN /\ k # 0
     /\ \E t \in DeviceTimes :
          LocalWrite("mood_logs", k, CreatedRecord(k, "good", t), t)

DeleteMoodLog(k) ==
  /\ device.tbl["mood_logs"][k] # NoLocal
  /\ \E t \in DeviceTimes :
       LocalWrite("mood_logs", k,
                  DeletedRecord(device.tbl["mood_logs"][k], t), t)

CreateJournalEntry ==
  LET k == FreeLocalId(device.tbl["journal_entries"])
  IN /\ k # 0
     /\ \E t \in DeviceTimes :
          LocalWrite("journal_entries", k, CreatedRecord(k, "good", t), t)

UpdateJournalEntry(k) ==
  /\ device.tbl["journal_entries"][k] # NoLocal
  /\ \E t \in DeviceTimes :
       LocalWrite("journal_entries", k,
                  EditedRecord(device.tbl["journal_entries"][k], "bad", t), t)

DeleteJournalEntry(k) ==
  /\ device.tbl["journal_entries"][k] # NoLocal
  /\ \E t \in DeviceTimes :
       LocalWrite("journal_entries", k,
                  DeletedRecord(device.tbl["journal_entries"][k], t), t)

CompleteCheckIn(k) ==
  /\ device.tbl["check_ins"][k] # NoLocal
  /\ \E t \in DeviceTimes :
       LocalWrite("check_ins", k,
                  EditedRecord(device.tbl["check_ins"][k], "bad", t), t)

\* NetInfo: the connection comes or goes
NetChange ==
  /\ device' = [device EXCEPT !.isConnected = ~@]
  /\ UNCHANGED <<now, rows, resources, syncMetadata, calls, started, winner>>

\* performSync() is called (interval timer, network listener, manual
\* trigger): if (this.isSyncing) return; otherwise await NetInfo.fetch().
\* limit bounds the number of invocations; overlap tells whether the call
\* may come while another invocation is still awaiting NetInfo.fetch()
PerformSync(p, limit, overlap) ==
  /\ device.runs[p].pc = "idle"
  /\ (limit = Unlimited \/ device.syncs < limit)
  /\ overlap \/ \A q \in RunSlots : device.runs[q].pc # "net"
  /\ \A q \in RunSlots : q < p => device.runs[q].pc # "idle"
  /\ device' = [device EXCEPT
       !.syncs = IF limit = Unlimited THEN @ ELSE @ + 1,
       !.runs[p] = IF device.isSyncing
                   THEN [NoRun EXCEPT !.message = "Sync already in progress"]
                   ELSE [NoRun EXCEPT !.pc = "net"]]
  /\ UNCHANGED <<now, rows, resources, syncMetadata, calls, started, winner>>

\* NetInfo.fetch() resolves with isConnected false
NetOffline(p) ==
  /\ device.runs[p].pc = "net"
  /\ ~device.isConnected
  /\ device' = [EnterSync(device, FALSE) EXCEPT
       !.runs[p] = [NoRun EXCEPT !.message = "No network connection"]]
  /\ UNCHANGED <<now, rows, resources, syncMetadata, calls, started, winner>>

\* NetInfo.fetch() resolves with isConnected true: the pending records and
\* the last sync time are read and api.sync posts the request
CallApi(p, limit) ==
  /\ device.runs[p].pc = "net"
  /\ device.isConnected
  /\ LET pending == [e \in Entities |-> GetPending(device.tbl[e])]
         req == [ caller |-> DeviceCaller, deviceId |-> "D1",
                  lastSyncAt |-> GetLastSyncTime(device),
                  changesShape |-> "object",
                  changes |-> [ e \in Entities |->
                                  [ j \in 1 .. Len(pending[e]) |->
                                      MapToServerFormat(pending[e][j]) ] ] ]
     IN \E c \in CallSlots :
          /\ Accept(c, req, limit, TRUE)
          /\ device' = [EnterSync(device, TRUE) EXCEPT
               !.runs[p] = [NoRun EXCEPT !.pc = "api", !.slot = c,
                                         !.pending = pending,
                                         !.collected = device.tbl]]

\* api.sync settles: a status other than 200 rejects and is caught; a
\* response with success: true is applied, and an exception of a local
\* statement is caught after the statements before it; finally isSyncing
\* is cleared
Respond(p) ==
  /\ device.runs[p].pc = "api"
  /\ calls[device.runs[p].slot].pc = "responded"
  /\ LET run == device.runs[p]
         call == calls[run.slot]
         served == call.status = 200 /\ call.success
         applied == ApplyResponse(device.tbl, run.pending, call.listed)
     IN /\ device' = [device EXCEPT
             !.tbl = IF served THEN applied.tbl ELSE @,
             !.lastSyncedAt = IF served /\ applied.ok THEN call.cnow ELSE @,
             !.isSyncing = FALSE,
             !.runs[p] = [NoRun EXCEPT
                            !.success = served /\ applied.ok,
                            !.message = IF ~served THEN "Request failed"
                                        ELSE IF ~applied.ok
                                        THEN "constraint failed"
                                        ELSE "Sync completed"]]
        /\ calls' = [calls EXCEPT ![run.slot] = IdleCall]
  /\ UNCHANGED <<now, rows, resources, syncMetadata, started, winner>>

\* the steps of a handler run whose response goes to the device
Serve(c) ==
  \/ Find(c)
  \/ Write(c)
  \/ Pull(c)
  \/ CursorFind(c)
  \/ CursorWrite(c)
  \/ StoreError(c)

\* a check-in scheduled for the device's user by POST /api/checkins
ScheduledCheckIn ==
  [ id |-> 1, tenantId |-> "T1", userId |-> "U1",
    mood |-> "good", clientCreatedAt |-> 1, createdAt |-> 1, updatedAt |-> 1,
    syncedAt |-> 1, isDeleted |-> FALSE, needsAttention |-> FALSE,
    reviewNotes |-> Null ]

InitClient ==
  /\ device = InitDevice
  /\ now = 1
  /\ rows = [e \in Entities |-> [k \in Ids |->
               IF e = "check_ins" /\ k = 1 THEN ScheduledCheckIn ELSE NoRow]]
  /\ resources = SeedResources
  /\ syncMetadata = <<>>
  /\ calls = [c \in CallSlots |-> IdleCall]
  /\ started = 0
  /\ winner = [e \in Entities |-> [k \in Ids |-> NoWrite]]

NextClient ==
  \/ CreateMoodLog
  \/ \E k \in Ids : DeleteMoodLog(k)
  \/ CreateJournalEntry
  \/ \E k \in Ids : UpdateJournalEntry(k)
  \/ \E k \in Ids : DeleteJournalEntry(k)
  \/ \E k \in Ids : CompleteCheckIn(k)
  \/ NetChange
  \/ \E p \in RunSlots : PerformSync(p, MaxSyncs, FALSE)
  \/ \E p \in RunSlots : NetOffline(p)
  \/ \E p \in RunSlots : CallApi(p, MaxSyncs)
  \/ \E p \in RunSlots : Respond(p)
  \/ \E c \in CallSlots : Serve(c)

SpecClient == InitClient /\ [][NextClient]_vars

\* ------------------------------------------- overlapping performSync calls
\* the timer or the listener fires while an earlier invocation is still
\* awaiting NetInfo.fetch(); the device stays connected and holds one
\* mood log written by createMoodLog
InitClientRace ==
  /\ device = [InitDevice EXCEPT
                 !.tbl["mood_logs"][1] = CreatedRecord(1, "good", 1),
                 !.writes = 1]
  /\ now = 1
  /\ rows = [e \in Entities |-> [k \in Ids |->
               IF e = "check_ins" /\ k = 1 THEN ScheduledCheckIn ELSE NoRow]]
  /\ resources = SeedResources
  /\ syncMetadata = <<>>
  /\ calls = [c \in CallSlots |-> IdleCall]
  /\ started = 0
  /\ winner = [e \in Entities |-> [k \in Ids |-> NoWrite]]

NextClientRace ==
  \/ \E p \in RunSlots : PerformSync(p, MaxSyncs, TRUE)
  \/ \E p \in RunSlots : CallApi(p, MaxSyncs)
  \/ \E p \in RunSlots : Respond(p)
  \/ \E c \in CallSlots : Find(c)
  \/ \E c \in CallSlots : Write(c)
  \/ \E c \in CallSlots : Pull(c)
  \/ \E c \in CallSlots : CursorFind(c)
  \/ \E c \in CallSlots : CursorWrite(c)

SpecClientRace == InitClientRace /\ [][NextClientRace]_vars

\* ------------------------------------------------------------- properties
\* the last push step of call c, and the row it was about as it is now
LastOf(c) == calls[c].last
RowNow(l) == rows[l.ent][l.id]
UserRows(sc) == sc.moodLogs \cup sc.journalEntries \cup sc.checkIns

\* C1: a push under tenant T2 that carries the id of a row of tenant T1
\* leaves T1's row untouched (it is not found within T2).
C1_CrossTenantPushIsolation ==
  \A c \in CallSlots :
    LET l == LastOf(c)
    IN (l.kind # "none" /\ l.before # NoRow
          /\ l.before.tenantId # calls[c].tenantId)
       => RowNow(l) = l.before

C3_PullUserScoping ==
  \A c \in CallSlots :
    (calls[c].pc # "idle" /\ calls[c].userRole = "crew") =>
      \A r \in UserRows(calls[c].serverChanges) : r.userId = calls[c].userId

\* C3 witness: a crew caller is answered with a mood log of its own while a
\* mood log of another user of the same tenant, later than the cutoff, exists
C3_Witness ==
  \E c \in CallSlots :
    /\ calls[c].pc = "responded" /\ calls[c].success
    /\ calls[c].userRole = "crew"
    /\ calls[c].serverChanges.moodLogs # {}
    /\ \E k \in Ids :
         /\ rows["mood_logs"][k] # NoRow
         /\ rows["mood_logs"][k].tenantId = calls[c].tenantId
         /\ rows["mood_logs"][k].userId # calls[c].userId
         /\ rows["mood_logs"][k].updatedAt > SyncCutoffDate(calls[c].lastSyncAt)

\* C4: of two pushes P1; P2 on one id the payload with the greater
\* updated_at (client_created_at when updated_at is absent) determines the
\* stored row, whatever the server time of the two arrivals.
C4_LastWriteWins ==
  \A c \in CallSlots :
    LET l == LastOf(c)
    IN (l.kind \in {"updated", "skipped"} /\ l.prev.kind = "push") =>
         /\ ClientDate(l.log) > ClientDate(l.prev.log)
              => (l.kind = "updated" /\ RowNow(l).mood = l.log.mood)
         /\ ClientDate(l.log) < ClientDate(l.prev.log)
              => RowNow(l) = l.before

\* C5: pushing a payload P again, by the same caller in a later call, leaves
\* the stored row (updated_at and synced_at included) as the first push left it.
C5_PushIdempotent ==
  \A c \in CallSlots :
    LET l == LastOf(c)
    IN (l.kind \in {"updated", "skipped"} /\ l.prev.kind = "push"
          /\ l.prev.log = l.log /\ l.prev.userId = calls[c].userId
          /\ l.prev.tenantId = calls[c].tenantId)
       => RowNow(l) = l.before

\* C6: a push whose updated_at (client_created_at when absent) is not
\* strictly later than the stored row's updated_at leaves the row unchanged.
C6_StalePushNoOp ==
  \A c \in CallSlots :
    LET l == LastOf(c)
    IN (l.kind # "none" /\ l.before # NoRow
          /\ ClientDate(l.log) <= l.before.updatedAt)
       => (RowNow(l) = l.before /\ l.kind = "skipped")

\* C6 witness: a push with a client date equal to the stored updated_at and a
\* different content has been handled
C6_Witness ==
  \E c \in CallSlots :
    LET l == LastOf(c)
    IN /\ l.kind = "skipped"
       /\ ClientDate(l.log) = l.before.updatedAt
       /\ l.log.mood # l.before.mood

\* C7: a sync call that fails leaves none of its pushes and none of its
\* cursor writes in the store.
C7_SyncAtomic ==
  \A c \in CallSlots :
    (calls[c].pc = "responded" /\ ~calls[c].success) =>
      (rows = calls[c].preRows /\ syncMetadata = calls[c].preMeta)

\* C8: a push by a crew caller that carries the id of a row owned by another
\* user never modifies that row.
C8_CrossUserPushProtection ==
  \A c \in CallSlots :
    LET l == LastOf(c)
    IN (l.kind # "none" /\ l.before # NoRow /\ calls[c].userRole = "crew"
          /\ l.before.userId # calls[c].userId)
       => RowNow(l) = l.before

\* C9: an accepted update leaves id, tenant_id, user_id, client_created_at
\* and created_at of the row as they were.
C9_ImmutableIdentityFields ==
  \A c \in CallSlots :
    LET l == LastOf(c)
    IN l.kind = "updated" =>
         /\ RowNow(l).id = l.before.id
         /\ RowNow(l).tenantId = l.before.tenantId
         /\ RowNow(l).userId = l.before.userId
         /\ RowNow(l).clientCreatedAt = l.before.clientCreatedAt
         /\ RowNow(l).createdAt = l.before.createdAt

\* C10: a row inserted by a push carries the caller's tenant and user,
\* whatever tenant_id / user_id the payload carries.
C10_InsertStamping ==
  \A c \in CallSlots :
    LET l == LastOf(c)
    IN l.kind = "inserted" =>
         /\ RowNow(l).tenantId = calls[c].tenantId
         /\ RowNow(l).userId = calls[c].userId

\* C10 witness: a payload claiming another tenant and user has been inserted
C10_Witness ==
  \E c \in CallSlots :
    LET l == LastOf(c)
    IN /\ l.kind = "inserted"
       /\ l.log.tenantId # "absent" /\ l.log.tenantId # calls[c].tenantId
       /\ l.log.userId # "absent" /\ l.log.userId # calls[c].userId

\* the list of serverChanges that holds the rows of table e
Pulled(sc, e) ==
  CASE e = "mood_logs" -> sc.moodLogs
    [] e = "journal_entries" -> sc.journalEntries
    [] OTHER -> sc.checkIns

\* the call has read all four tables and was not aborted
HasPulled(c) ==
  calls[c].pc \in {"cfind", "cwrite"}
    \/ (calls[c].pc = "responded" /\ calls[c].success)

\* the rows a table holds
StoredRows(e) == { rows[e][k] : k \in { j \in Ids : rows[e][j] # NoRow } }

\* the request's lastSyncAt, or the epoch when it is absent
Since(c) == IF calls[c].lastSyncAt = Absent THEN 0 ELSE calls[c].lastSyncAt

\* C12: every mood-log, journal-entry and check-in row has
\* updated_at >= created_at.
C12_UpdatedNotBeforeCreated ==
  \A e \in Entities : \A r \in StoredRows(e) : r.updatedAt >= r.createdAt

\* C15: for each of mood logs, journal entries and check-ins the list a sync
\* call returns is exactly the set of stored rows of the caller's tenant and
\* user whose updated_at is strictly greater than since (lastSyncAt, or the
\* epoch when lastSyncAt is absent).
C15_PullDeltaExact ==
  \A c \in CallSlots :
    HasPulled(c) =>
      \A e \in Entities :
        Pulled(calls[c].serverChanges, e) =
          { r \in StoredRows(e) : /\ r.tenantId = calls[c].tenantId
                                  /\ r.userId = calls[c].userId
                                  /\ r.updatedAt > Since(c) }

\* C15 witness: a call with lastSyncAt equal to the updated_at of the caller's
\* only mood log is answered with an empty mood-log delta
C15_Witness ==
  \E c \in CallSlots :
    /\ calls[c].pc = "responded" /\ calls[c].success
    /\ calls[c].lastSyncAt = 1
    /\ calls[c].serverChanges.moodLogs = {}
    /\ \E r \in StoredRows("mood_logs") :
         /\ r.tenantId = calls[c].tenantId /\ r.userId = calls[c].userId
         /\ r.updatedAt = calls[c].lastSyncAt

\* C17: a new row pushed in a call without lastSyncAt is in that call's
\* serverChanges with user_id and tenant_id of the caller and with
\* server-assigned timestamps (created_at and updated_at are the server time
\* of the insert).
C17_PushVisibleToOwnPull ==
  \A c \in CallSlots :
    (HasPulled(c) /\ calls[c].lastSyncAt = Absent
       /\ LastOf(c).kind = "inserted") =>
      \E r \in Pulled(calls[c].serverChanges, LastOf(c).ent) :
        /\ r.id = LastOf(c).id
        /\ r.userId = calls[c].userId
        /\ r.tenantId = calls[c].tenantId
        /\ r.createdAt = r.syncedAt
        /\ r.updatedAt = r.syncedAt

\* C18 as stated: whenever a push is discarded because the stored row is
\* newer, the stored row is in the serverChanges of the same response,
\* whatever the request's lastSyncAt.
C18_DroppedPushConverges ==
  \A c \in CallSlots :
    (HasPulled(c) /\ LastOf(c).kind = "skipped") =>
      RowNow(LastOf(c)) \in Pulled(calls[c].serverChanges, LastOf(c).ent)

\* C19: every published resource with tenant_id = null updated after since is
\* in serverChanges.resources, and no resource of another tenant is.
C19_GlobalResourcesPulled ==
  \A c \in CallSlots :
    HasPulled(c) =>
      /\ \A r \in resources :
           (r.tenantId = Null /\ r.isPublished /\ r.updatedAt > Since(c))
             => r \in calls[c].serverChanges.resources
      /\ \A r \in calls[c].serverChanges.resources :
           r.tenantId # Null => r.tenantId = calls[c].tenantId

\* C11: when a caller whose role is not psychologist pushes a check-in change
\* carrying needs_attention or review_notes, the stored review fields stay as
\* they were (the defaults on insert) while the other fields of the change
\* apply.
C11_ReviewFieldsRoleGated ==
  \A c \in CallSlots :
    LET l == LastOf(c)
    IN (/\ l.kind \in {"inserted", "updated"} /\ l.ent = "check_ins"
        /\ calls[c].userRole # "psychologist"
        /\ (l.log.needsAttention # "absent" \/ l.log.reviewNotes # "absent")) =>
         /\ RowNow(l).mood = l.log.mood
         /\ RowNow(l).needsAttention =
              (IF l.before = NoRow THEN FALSE ELSE l.before.needsAttention)
         /\ RowNow(l).reviewNotes =
              (IF l.before = NoRow THEN Null ELSE l.before.reviewNotes)

\* C13: when a batch holds an invalid change (unknown mood value, missing
\* client_created_at) and the store itself does not fail, the call succeeds,
\* every valid change of the batch is applied and the unknown mood value is
\* not stored.
C13_PerChangeIsolation ==
  \A c \in CallSlots :
    LET batch == calls[c].changes["mood_logs"]
        ok(log) == log.mood \in Moods /\ log.clientCreatedAt # Absent
    IN (/\ calls[c].pc = "responded"
        /\ calls[c].cause \notin {"store", "validation"}
        /\ \E k \in 1 .. Len(batch) : ~ok(batch[k])) =>
         /\ calls[c].success
         /\ \A k \in 1 .. Len(batch) :
              ok(batch[k]) => rows["mood_logs"][batch[k].id] # NoRow
         /\ \A k \in 1 .. Len(batch) :
              batch[k].mood \notin Moods =>
                \/ rows["mood_logs"][batch[k].id] = NoRow
                \/ rows["mood_logs"][batch[k].id].mood # batch[k].mood

\* C14: a sync request whose deviceId is missing or not a well-formed UUID, or
\* whose changes is not a mapping of sequences, is answered 400 and no push,
\* pull or cursor write happens: the store is as it was.
C14_EnvelopeRejected ==
  \A c \in CallSlots :
    (/\ calls[c].pc # "idle"
     /\ (calls[c].deviceId \notin DeviceIds \/ calls[c].changesShape # "object")) =>
      /\ calls[c].pc = "responded" /\ calls[c].status = 400
      /\ ~calls[c].success
      /\ rows = calls[c].preRows
      /\ syncMetadata = calls[c].preMeta
      /\ calls[c].pushed = 0 /\ LastOf(c) = NoWrite
      /\ calls[c].serverChanges = EmptyServerChanges

\* C14 witness: a request with a malformed deviceId that carries a mood log,
\* made after an earlier call filled the store, has been answered 400
C14_Witness ==
  \E c \in CallSlots :
    /\ calls[c].pc = "responded" /\ calls[c].status = 400
    /\ calls[c].deviceId = "not-a-uuid"
    /\ Len(calls[c].changes["mood_logs"]) > 0
    /\ syncMetadata # <<>>
    /\ rows["mood_logs"][1] = NoRow

\* C16: once an accepted push of a user has set is_deleted = true on a stored
\* row of that user, the row stays in the store and every later pull of that user whose
\* since precedes the deletion returns it with the tombstone flag set.
C16_TombstoneReplicated ==
  \A c \in CallSlots : \A k \in Ids :
    LET w == winner["mood_logs"][k]
    IN (/\ HasPulled(c) /\ w.kind = "push"
        /\ w.deletedBy = calls[c].userId
        /\ w.deletedAt > Since(c)) =>
         /\ rows["mood_logs"][k] # NoRow
         /\ \E r \in calls[c].serverChanges.moodLogs : r.id = k /\ r.isDeleted

\* C20: the store holds at most one cursor row per
\* {tenant, user, device, entity}.
C20_CursorUnique ==
  \A i, j \in 1 .. Len(syncMetadata) :
    (/\ syncMetadata[i].tenantId = syncMetadata[j].tenantId
     /\ syncMetadata[i].userId = syncMetadata[j].userId
     /\ syncMetadata[i].deviceId = syncMetadata[j].deviceId
     /\ syncMetadata[i].tableName = syncMetadata[j].tableName) => i = j

\* the cursor rows of the call's {tenant, user, device} for table tn
CursorsOf(c, tn) ==
  { k \in 1 .. Len(syncMetadata) :
      /\ syncMetadata[k].tenantId = calls[c].tenantId
      /\ syncMetadata[k].userId = calls[c].userId
      /\ syncMetadata[k].deviceId = calls[c].deviceId
      /\ syncMetadata[k].tableName = tn }

C24_BatchOrder ==
  \A c \in CallSlots :
    LET call == calls[c]
        tag(e) == [k \in 1 .. Len(call.changes[e]) |-> <<e, call.changes[e][k]>>]
        full == tag("mood_logs") \o tag("journal_entries") \o tag("check_ins")
    IN call.pc # "idle" =>
         /\ Len(call.done) <= Len(full)
         /\ call.done = SubSeq(full, 1, Len(call.done))
         /\ (call.pc \in {"pull", "cfind", "cwrite"}
               \/ (call.pc = "responded" /\ call.success)) => call.done = full
         /\ call.pc \in {"find", "write"} =>
              (call.serverChanges = EmptyServerChanges
                 /\ syncMetadata = call.preMeta)
         /\ call.pc = "pull" => syncMetadata = call.preMeta
         /\ syncMetadata # call.preMeta => call.ent = 4

\* C24 witness: a successful call whose batch held two different mood-log
\* changes with the same id has stored the first and discarded the second
C24_Witness ==
  \E c \in CallSlots :
    LET batch == calls[c].changes["mood_logs"]
    IN /\ calls[c].pc = "responded" /\ calls[c].success
       /\ Len(batch) = 2
       /\ batch[1].id = batch[2].id /\ batch[1].mood # batch[2].mood
       /\ LastOf(c).kind = "skipped" /\ LastOf(c).log = batch[2]
       /\ rows["mood_logs"][batch[1].id].mood = batch[1].mood

\* C25: a call in which a store operation failed is answered with
\* success = false and a 5xx status, and never with success = true.
C25_ErrorPropagation ==
  \A c \in CallSlots :
    /\ calls[c].cause \in {"store", "constraint"} =>
         /\ calls[c].pc = "responded" /\ ~calls[c].success
         /\ calls[c].status >= 500 /\ calls[c].status < 600
    /\ (calls[c].pc = "responded" /\ calls[c].success) =>
         calls[c].cause = "none"

\* C25 witness: a store operation failed after a push of the call had been
\* applied
C25_Witness ==
  \E c \in CallSlots :
    /\ calls[c].pc = "responded" /\ calls[c].cause = "store"
    /\ calls[c].pushed > 0
    /\ rows # calls[c].preRows

\* C26: the response of every successful sync call carries an empty conflicts
\* list, also when a push of the call was dropped as older than the stored row.
C26_ConflictsEmpty ==
  \A c \in CallSlots :
    (calls[c].pc = "responded" /\ calls[c].success) => calls[c].conflicts = <<>>

\* C26 witness: a successful response of a call whose push was dropped
C26_Witness ==
  \E c \in CallSlots :
    /\ calls[c].pc = "responded" /\ calls[c].success
    /\ LastOf(c).kind = "skipped"
    /\ RowNow(LastOf(c)).mood # LastOf(c).log.mood

\* C27: inside each entity's list of serverChanges the rows are in ascending
\* order of updated_at.
C27_PullOrdered ==
  \A c \in CallSlots : \A e \in Entities :
    HasPulled(c) =>
      \A i, j \in 1 .. Len(calls[c].listed[e]) :
        i < j => calls[c].listed[e][i].updatedAt <= calls[c].listed[e][j].updatedAt

\* C21: every stored row of the caller's {tenant, user} whose updated_at is
\* earlier than the lastSyncAt returned by a successful call (the claim says
\* so also for an equal updated_at) was visible to that call's pull: it is in
\* the call's serverChanges when it is later than since.
C21_NoChangeMissed ==
  \A c \in CallSlots :
    (calls[c].pc = "responded" /\ calls[c].success) =>
      \A e \in Entities : \A r \in StoredRows(e) :
        (/\ r.tenantId = calls[c].tenantId /\ r.userId = calls[c].userId
         /\ r.updatedAt < calls[c].cnow
         /\ r.updatedAt > Since(c)) =>
          r \in Pulled(calls[c].serverChanges, e)

\* C22: of two calls that push the same id concurrently neither fails because
\* of the other: an insert is rejected only when the payload itself cannot be
\* stored, never because the row appeared after the call looked it up.
C22_ConcurrentMergesSerialized ==
  \A c \in CallSlots :
    LastOf(c).kind = "rejected" => LastOf(c).before = NoRow

\* C28: the check-ins list of a sync call holds the rows of the caller's
\* tenant and user when the role is crew and the rows of the caller's tenant
\* when it is admin or psychologist; mood logs and journal entries are those
\* of the caller's tenant and user for every role.
C28_RoleDependentCheckInPull ==
  \A c \in CallSlots :
    (calls[c].op = "sync" /\ HasPulled(c)) =>
      /\ calls[c].serverChanges.checkIns =
           { r \in StoredRows("check_ins") :
               /\ r.tenantId = calls[c].tenantId
               /\ calls[c].userRole = "crew" => r.userId = calls[c].userId
               /\ r.updatedAt > Since(c) }
      /\ \A e \in {"mood_logs", "journal_entries"} :
           Pulled(calls[c].serverChanges, e) =
             { r \in StoredRows(e) : /\ r.tenantId = calls[c].tenantId
                                     /\ r.userId = calls[c].userId
                                     /\ r.updatedAt > Since(c) }

\* C29: a status request without deviceId (or with an empty one) is answered
\* 400 straight away and returns no cursor; any other answered status request returns exactly the cursor rows
\* of the caller's tenant, the caller's user and the requested device.
C29_StatusScope ==
  \A c \in CallSlots :
    (calls[c].op = "status" /\ calls[c].pc = "responded") =>
      IF calls[c].deviceId \in {"missing", ""}
      THEN /\ calls[c].status = 400 /\ ~calls[c].success
           /\ calls[c].cause = "validation"
           /\ calls[c].data = {}
      ELSE calls[c].cause = "none" =>
           /\ calls[c].status = 200 /\ calls[c].success
           /\ calls[c].data =
                { syncMetadata[k] : k \in
                    { j \in 1 .. Len(syncMetadata) :
                        /\ syncMetadata[j].tenantId = calls[c].tenantId
                        /\ syncMetadata[j].userId = calls[c].userId
                        /\ syncMetadata[j].deviceId = calls[c].deviceId } }

\* C29 witness: a status request is answered with the caller's cursors while
\* the store also holds the cursors of another user for the same device
C29_Witness ==
  \E c \in CallSlots :
    /\ calls[c].op = "status" /\ calls[c].pc = "responded" /\ calls[c].success
    /\ calls[c].data # {}
    /\ \E k \in 1 .. Len(syncMetadata) :
         /\ syncMetadata[k].deviceId = calls[c].deviceId
         /\ syncMetadata[k].userId # calls[c].userId

\* C30: no step of the server removes a row from a synced table (mood logs,
\* journal entries, check-ins, resources).
C30_NeverHardDeleted ==
  [][ /\ \A e \in Entities : \A k \in Ids :
           rows[e][k] # NoRow => rows'[e][k] # NoRow
      /\ \A r \in resources : \E q \in resources' : q.id = r.id ]_vars

\* C38: the last_synced_at of a cursor row never decreases from one state to
\* the next, whatever the interleaving of the sync calls of one
\* {tenant, user, device}.
C38_CursorMonotone ==
  [][\A k \in 1 .. Len(syncMetadata) :
       syncMetadata'[k].lastSyncedAt >= syncMetadata[k].lastSyncedAt]_vars

\* ------------------------------------------------- the timer keeps firing
\* the device stays connected, no store operation fails, and performSync
\* is called again and again; the user writes mood logs now and then
NextClientLive ==
  \/ CreateMoodLog
  \/ \E p \in RunSlots : PerformSync(p, Unlimited, FALSE)
  \/ \E p \in RunSlots : CallApi(p, Unlimited)
  \/ \E p \in RunSlots : Respond(p)
  \/ \E c \in CallSlots : Find(c)
  \/ \E c \in CallSlots : Write(c)
  \/ \E c \in CallSlots : Pull(c)
  \/ \E c \in CallSlots : CursorFind(c)
  \/ \E c \in CallSlots : CursorWrite(c)

\* setInterval calls performSync every interval, and every awaited promise
\* of a sync settles
SpecClientLive ==
  /\ InitClient
  /\ [][NextClientLive]_vars
  /\ WF_vars(\E p \in RunSlots : PerformSync(p, Unlimited, FALSE))
  /\ WF_vars(\E p \in RunSlots : CallApi(p, Unlimited))
  /\ WF_vars(\E p \in RunSlots : Respond(p))
  /\ WF_vars(\E c \in CallSlots : Find(c) \/ Write(c) \/ Pull(c)
                                     \/ CursorFind(c) \/ CursorWrite(c))

\* ------------------------------------------------------ client properties
\* the step in which invocation p of performSync gets its api.sync outcome,
\* processes it and returns
Settles(p) == device.runs[p].pc = "api" /\ device'.runs[p].pc = "idle"

\* the step in which invocation p returns before any api.sync call: at the
\* isSyncing guard or at the network check
ReturnsEarly(p) ==
  /\ device'.runs[p].pc = "idle"
  /\ \/ device.runs[p].pc = "net"
     \/ /\ device.runs[p].pc = "idle"
        /\ \A q \in RunSlots : q < p => device.runs[q].pc # "idle"
        /\ device'.syncs = device.syncs + 1

\* C31: at most one performSync invocation of the device is past the guard
\* with its api.sync call in flight.
C31_SingleFlight ==
  Cardinality({ p \in RunSlots : device.runs[p].pc = "api" }) <= 1

\* C32: a successful performSync leaves every record that was linked to a
\* server row, then soft-deleted, and was PENDING when the batch was
\* collected, out of PENDING, and its server row has is_deleted = true.
C32_DeletionsSynced ==
  [][\A p \in RunSlots :
       (Settles(p) /\ device'.runs[p].success) =>
         \A e \in Entities : \A k \in Ids :
           LET was == device.runs[p].collected[e][k]
           IN (was # NoLocal /\ was.isDeleted = 1
                 /\ was.serverId # NullId
                 /\ was.syncStatus = "PENDING") =>
                /\ device'.tbl[e][k].syncStatus # "PENDING"
                /\ rows'[e][MapToServerFormat(was).id] # NoRow
                /\ rows'[e][MapToServerFormat(was).id].isDeleted]_vars

\* C33: with the device connected and every sync call succeeding, a mood
\* log that is PENDING is eventually SYNCED with a serverId.
C33_PendingEventuallySynced ==
  \A k \in Ids :
    (device.tbl["mood_logs"][k] # NoLocal
       /\ device.tbl["mood_logs"][k].syncStatus = "PENDING")
    ~> (device.tbl["mood_logs"][k] # NoLocal
          /\ device.tbl["mood_logs"][k].syncStatus = "SYNCED"
          /\ device.tbl["mood_logs"][k].serverId # NullId)

\* C34: a local write leaves the record it changed with syncStatus PENDING,
\* whatever its status was, and a record it created has serverId NULL.
C34_WritesStagedPending ==
  [][device'.writes # device.writes =>
       \A e \in Entities : \A k \in Ids :
         device'.tbl[e][k] # device.tbl[e][k] =>
           /\ device'.tbl[e][k].syncStatus = "PENDING"
           /\ device.tbl[e][k] = NoLocal =>
                device'.tbl[e][k].serverId = NullId]_vars

\* a record that was linked to a server row and then written again locally
C34_Witness ==
  \E e \in Entities : \E k \in Ids :
    /\ device.tbl[e][k] # NoLocal
    /\ device.tbl[e][k].serverId # NullId
    /\ device.tbl[e][k].syncStatus = "PENDING"
    /\ device.writes > 0

C36_InFlightEditKept ==
  [][\A p \in RunSlots :
       Settles(p) =>
         \A e \in Entities : \A k \in Ids :
           (/\ device.runs[p].collected[e][k] # NoLocal
            /\ device.tbl[e][k] # device.runs[p].collected[e][k]) =>
             device'.tbl[e][k] = device.tbl[e][k]]_vars

\* C37: every local record with a serverId is linked to the row pushed
\* under its own id (serverId = localId), hence no two records of a table
\* share a serverId.
C37_ServerLinkCorrect ==
  \A e \in Entities : \A k \in Ids :
    (device.tbl[e][k] # NoLocal /\ device.tbl[e][k].serverId # NullId) =>
      device.tbl[e][k].serverId = device.tbl[e][k].localId

\* C39: a performSync that returns success: false has left every local
\* record and the stored last sync time as they were.
C39_FailedSyncChangesNothing ==
  [][\A p \in RunSlots :
       (Settles(p) /\ ~device'.runs[p].success) =>
         /\ device'.tbl = device.tbl
         /\ device'.lastSyncedAt = device.lastSyncedAt]_vars

====
